---------------------------- MODULE Spec2Model ----------------------------
(***************************************************************************)
(* A model of plugins/common/utils.go of jfrog-cli-core: the helpers that  *)
(* read flag values out of a components.Context, fall back to environment  *)
(* variables, validate the download flags and build the download           *)
(* configuration.                                                          *)
(*                                                                         *)
(* Go strings are TLA+ strings; a Go error is <<>> (nil) or <<msg>>; a Go  *)
(* pointer is <<>> (nil) or <<value>>.                                     *)
(***************************************************************************)
EXTENDS Integers, Sequences, FiniteSets, TLC

VARIABLES c, env, field, heap, ret

vars == <<c, env, field, heap, ret>>

\* ------------------------------------------------------------------------
\* Bounds of the model
\* ------------------------------------------------------------------------

\* Longest generated flag value (in characters).
MaxFlagLen == 2

\* ------------------------------------------------------------------------
\* Program constants
\* ------------------------------------------------------------------------

minSplit == "min-split"
DownloadMinSplitKb == 5120
DownloadSplitCount == 3
DownloadMaxSplitCount == 15

\* coreutils.JFrogHelpUrl, coreutils.CI and coreutils.Project.
JFrogHelpUrl == "https://docs.jfrog-applications.jfrog.io/"
CI == "CI"
Project == "JFROG_CLI_BUILD_PROJECT"

\* strconv.IntSize: the width of Go's int.  It is 32 or 64 depending on the
\* target; TLC's integers are 32 bits wide, so the model takes the 32-bit
\* targets, where int's range is exactly TLC's.
IntSize == 32

nil == <<>>
errors_New(msg) == <<msg>>

\* ------------------------------------------------------------------------
\* Strings
\* ------------------------------------------------------------------------

CharAt(s, i) == SubSeq(s, i, i)

\* s[i:] with i counted from 0, as in Go.
From(s, i) == SubSeq(s, i + 1, Len(s))

RECURSIVE Strs(_, _)
\* Every string over `alphabet` of at most n characters.
Strs(alphabet, n) ==
    IF n = 0 THEN {""}
    ELSE LET shorter == Strs(alphabet, n - 1)
         IN  shorter \cup {s \o ch : s \in shorter, ch \in alphabet}

HasSuffix(s, suffix) ==
    /\ Len(s) >= Len(suffix)
    /\ SubSeq(s, Len(s) - Len(suffix) + 1, Len(s)) = suffix

Contains(s, sub) ==
    \E i \in 1..(Len(s) - Len(sub) + 1) : SubSeq(s, i, i + Len(sub) - 1) = sub

RECURSIVE strings_Split(_, _)
\* strings.Split(s, sep) for a one-character separator: the segments between
\* the separators, empty segments kept; Split("", sep) is <<"">>.
strings_Split(s, sep) ==
    IF \A i \in 1..Len(s) : CharAt(s, i) # sep THEN <<s>>
    ELSE LET i == CHOOSE k \in 1..Len(s) :
                     /\ CharAt(s, k) = sep
                     /\ \A j \in 1..(k - 1) : CharAt(s, j) # sep
         IN  <<SubSeq(s, 1, i - 1)>> \o strings_Split(From(s, i), sep)

RECURSIVE strings_Join(_, _)
strings_Join(elems, sep) ==
    IF elems = <<>> THEN ""
    ELSE IF Len(elems) = 1 THEN elems[1]
    ELSE elems[1] \o sep \o strings_Join(Tail(elems), sep)


\* ------------------------------------------------------------------------
\* strconv
\* ------------------------------------------------------------------------

ErrSyntax == errors_New("invalid syntax")
ErrRange == errors_New("value out of range")

DecimalDigits == "0123456789"
LowerLetters == "abcdefghijklmnopqrstuvwxyz"
UpperLetters == "ABCDEFGHIJKLMNOPQRSTUVWXYZ"

\* The 1-based position of the character ch in str, 0 when it is not there.
IndexByte(str, ch) ==
    IF \E i \in 1..Len(str) : CharAt(str, i) = ch
    THEN CHOOSE i \in 1..Len(str) : CharAt(str, i) = ch
    ELSE 0

\* strconv's lower(c): the lower-case form of an ASCII letter.
lower(ch) ==
    IF IndexByte(UpperLetters, ch) > 0
    THEN CharAt(LowerLetters, IndexByte(UpperLetters, ch))
    ELSE ch

\* The value of ch as a digit ('0'..'9', then letters from 10), -1 for any
\* other character.
DigitValue(ch) ==
    IF IndexByte(DecimalDigits, ch) > 0 THEN IndexByte(DecimalDigits, ch) - 1
    ELSE IF IndexByte(LowerLetters, lower(ch)) > 0
         THEN IndexByte(LowerLetters, lower(ch)) + 9
    ELSE -1

\* Unsigned magnitudes are numerals: the digits in some base, most
\* significant first, without leading zeros (zero is <<>>).  A magnitude of
\* 64 bits does not fit TLC's integers; a numeral does.

NumAppend(n, d) == IF n = <<>> /\ d = 0 THEN <<>> ELSE Append(n, d)

\* a >= b, for numerals of one base.
NumGE(a, b) ==
    \/ Len(a) > Len(b)
    \/ /\ Len(a) = Len(b)
       /\ \/ a = b
          \/ LET i == CHOOSE k \in 1..Len(a) :
                          /\ a[k] # b[k]
                          /\ \A j \in 1..(k - 1) : a[j] = b[j]
             IN  a[i] > b[i]

RECURSIVE SmallNumeral(_, _)
\* The numeral of an integer v >= 0.
SmallNumeral(v, base) ==
    IF v = 0 THEN <<>> ELSE Append(SmallNumeral(v \div base, base), v % base)

RECURSIVE TimesFrom(_, _, _, _, _)
\* The numeral of n[1..i] * m + carry.
TimesFrom(n, i, carry, m, base) ==
    IF i = 0 THEN SmallNumeral(carry, base)
    ELSE LET v == m * n[i] + carry
         IN  Append(TimesFrom(n, i - 1, v \div base, m, base), v % base)

RECURSIVE Pow2Numeral(_, _)
\* The numeral of 2^k in `base`.
Pow2Numeral(k, base) ==
    IF k = 0 THEN <<1>>
    ELSE LET step == IF k >= 8 THEN 8 ELSE 1
             rest == Pow2Numeral(k - step, base)
         IN  TimesFrom(rest, Len(rest), 0, 2 ^ step, base)

RECURSIVE NumToInt(_, _, _)
\* The integer a numeral denotes (it must fit the integers of TLC).
NumToInt(n, i, base) ==
    IF i = 0 THEN 0 ELSE NumToInt(n, i - 1, base) * base + n[i]

\* The largest and the smallest value of a signed integer of w bits.  The
\* 64-bit ones are beyond TLC's integers and stand as tokens; no caller in
\* this package reads the value ParseInt returns beside a 64-bit range error.
MaxIntOf(w) == IF w = 32 THEN 2147483647 ELSE "math.MaxInt64"
MinIntOf(w) == IF w = 32 THEN -2147483647 - 1 ELSE "math.MinInt64"

RECURSIVE underscoreScan(_, _, _, _)
\* The loop of strconv's underscoreOK over s from position i (1-based): saw
\* is "0" after a digit (or the base prefix), "_" after an underscore, "!"
\* after anything else and "^" at the start.
underscoreScan(s, i, saw, hex) ==
    IF i > Len(s) THEN saw # "_"
    ELSE LET ch == CharAt(s, i)
             d == DigitValue(ch)
         IN  IF (0 <= d /\ d <= 9) \/ (hex /\ 10 <= d /\ d <= 15)
             THEN underscoreScan(s, i + 1, "0", hex)
             ELSE IF ch = "_"
             THEN saw = "0" /\ underscoreScan(s, i + 1, "_", hex)
             ELSE saw # "_" /\ underscoreScan(s, i + 1, "!", hex)

\* strconv's underscoreOK: underscores appear only as digit separators.
underscoreOK(s0) ==
    LET s == IF Len(s0) >= 1 /\ CharAt(s0, 1) \in {"-", "+"} THEN From(s0, 1) ELSE s0
        prefixed == /\ Len(s) >= 2
                    /\ CharAt(s, 1) = "0"
                    /\ lower(CharAt(s, 2)) \in {"b", "o", "x"}
    IN  IF prefixed
        THEN underscoreScan(s, 3, "0", lower(CharAt(s, 2)) = "x")
        ELSE underscoreScan(s, 1, "^", FALSE)

RECURSIVE digitLoop(_, _, _, _, _, _, _)
\* The digit loop of strconv.ParseUint over s from position i, n the
\* magnitude so far: it stops at the first character that is no digit of
\* the base (a syntax error) or at the first digit that carries the
\* magnitude past maxVal (a range error), whichever comes first.  over is
\* maxVal + 1, that is 1 << bitSize, as a numeral.
digitLoop(s, i, base, base0, over, n, underscores) ==
    IF i > Len(s) THEN [status |-> "ok", n |-> n, underscores |-> underscores]
    ELSE LET ch == CharAt(s, i)
             d == DigitValue(ch)
             n1 == NumAppend(n, d)
         IN  IF ch = "_" /\ base0
             THEN digitLoop(s, i + 1, base, base0, over, n, TRUE)
             ELSE IF d < 0 \/ d >= base
             THEN [status |-> "syntax", n |-> <<>>, underscores |-> underscores]
             ELSE IF NumGE(n1, over)
             THEN [status |-> "range", n |-> over, underscores |-> underscores]
             ELSE digitLoop(s, i + 1, base, base0, over, n1, underscores)

\* The end of ParseUint: r is what the digit loop found for s in base b.
uintResult(s, b, r) ==
    IF r.status = "ok" /\ r.underscores /\ ~underscoreOK(s)
    THEN [status |-> "syntax", n |-> <<>>, base |-> b]
    ELSE [status |-> r.status, n |-> r.n, base |-> b]

\* ParseUint once the base b and the first digit's position are known.
uintDigits(s, b, start, base0, w) ==
    uintResult(s, b, digitLoop(s, start, b, base0, Pow2Numeral(w, b), <<>>, FALSE))

\* strconv.ParseUint(s, base, bitSize):
\* [status, n, base], n the magnitude as a numeral of `base` (on a range
\* error a magnitude past maxVal).
ParseUint(s, base, bitSize) ==
    IF s = "" THEN [status |-> "syntax", n |-> <<>>, base |-> 10]
    ELSE LET base0 == base = 0
             long == Len(s) >= 3
             second == IF Len(s) >= 2 THEN lower(CharAt(s, 2)) ELSE ""
             w == IF bitSize = 0 THEN IntSize ELSE bitSize
         IN  IF ~base0 THEN uintDigits(s, base, 1, base0, w)
             ELSE IF CharAt(s, 1) # "0" THEN uintDigits(s, 10, 1, base0, w)
             ELSE IF long /\ second = "b" THEN uintDigits(s, 2, 3, base0, w)
             ELSE IF long /\ second = "o" THEN uintDigits(s, 8, 3, base0, w)
             ELSE IF long /\ second = "x" THEN uintDigits(s, 16, 3, base0, w)
             ELSE uintDigits(s, 8, 2, base0, w)

\* The end of ParseInt: the signed value of the magnitude un, against the
\* cutoff 1 << (w-1).
intResult(neg, un, w, cutoff) ==
    IF un.status = "syntax" THEN [val |-> 0, err |-> ErrSyntax]
    ELSE IF ~neg /\ NumGE(un.n, cutoff)
    THEN [val |-> MaxIntOf(w), err |-> ErrRange]
    ELSE IF neg /\ NumGE(un.n, cutoff) /\ un.n # cutoff
    THEN [val |-> MinIntOf(w), err |-> ErrRange]
    ELSE IF neg /\ un.n = cutoff
    THEN [val |-> MinIntOf(w), err |-> nil]
    ELSE IF neg
    THEN [val |-> -NumToInt(un.n, Len(un.n), un.base), err |-> nil]
    ELSE [val |-> NumToInt(un.n, Len(un.n), un.base), err |-> nil]

intSigned(neg, un, w) == intResult(neg, un, w, Pow2Numeral(w - 1, un.base))

\* strconv.ParseInt(s, base, bitSize): [val, err].
ParseInt(s, base, bitSize) ==
    IF s = "" THEN [val |-> 0, err |-> ErrSyntax]
    ELSE intSigned(CharAt(s, 1) = "-",
                   ParseUint(IF CharAt(s, 1) \in {"+", "-"} THEN From(s, 1) ELSE s,
                             base, bitSize),
                   IF bitSize = 0 THEN IntSize ELSE bitSize)

\* strconv.Atoi(s): ParseInt(s, 10, 0); its fast path for short strings
\* accepts the same strings with the same values.
Atoi(s) == ParseInt(s, 10, 0)

RECURSIVE FormatUint(_)
FormatUint(n) ==
    IF n < 10 THEN CharAt(DecimalDigits, n + 1)
    ELSE FormatUint(n \div 10) \o CharAt(DecimalDigits, (n % 10) + 1)

\* strconv.Itoa(i), for i above the smallest int.
Itoa(i) == IF i < 0 THEN "-" \o FormatUint(-i) ELSE FormatUint(i)

\* strconv.ParseBool(str): [val, err].
ParseBool(str) ==
    IF str \in {"1", "t", "T", "TRUE", "true", "True"}
    THEN [val |-> TRUE, err |-> nil]
    ELSE IF str \in {"0", "f", "F", "FALSE", "false", "False"}
    THEN [val |-> FALSE, err |-> nil]
    ELSE [val |-> FALSE, err |-> ErrSyntax]


\* ------------------------------------------------------------------------
\* components.Context, the process environment and the helpers of cliutils
\* and clientutils
\* ------------------------------------------------------------------------

\* A context holds the string flags and the boolean flags the command line
\* supplied (maps from flag name to value) and the positional arguments.

\* c.IsFlagSet(flagName)
IsFlagSet(ctx, flagName) ==
    flagName \in DOMAIN ctx.stringFlags \/ flagName \in DOMAIN ctx.boolFlags

\* c.GetStringFlagValue(flagName): the zero value for a missing key.
GetStringFlagValue(ctx, flagName) ==
    IF flagName \in DOMAIN ctx.stringFlags THEN ctx.stringFlags[flagName] ELSE ""

\* c.GetBoolFlagValue(flagName)
GetBoolFlagValue(ctx, flagName) ==
    IF flagName \in DOMAIN ctx.boolFlags THEN ctx.boolFlags[flagName] ELSE FALSE

\* os.Getenv(key) in environment e: "" for a variable that is not set.
os_Getenv(e, key) == IF key \in DOMAIN e THEN e[key] ELSE ""

\* clientutils.GetBoolEnvValue(flagName, defValue): [val, err].
GetBoolEnvValue(e, flagName, defValue) ==
    IF os_Getenv(e, flagName) = "" THEN [val |-> defValue, err |-> nil]
    ELSE LET b == ParseBool(os_Getenv(e, flagName))
         IN  IF b.err # nil
             THEN [val |-> b.val,
                   err |-> errors_New("can't parse environment variable " \o flagName)]
             ELSE b

\* cliutils.Threads, the default number of threads.
Threads == 3

\* The end of cliutils.GetThreadsCount: a is what Atoi made of the flag.
threadsResult(a) ==
    IF a.err # nil \/ a.val < 1
    THEN [threads |-> 0,
          err |-> errors_New("the '--threads' option should have a numeric positive value")]
    ELSE [threads |-> a.val, err |-> nil]

\* cliutils.GetThreadsCount(threadsStr): [threads, err].
cliutils_GetThreadsCount(threadsStr) ==
    IF threadsStr = "" THEN [threads |-> Threads, err |-> nil]
    ELSE threadsResult(Atoi(threadsStr))

\* ------------------------------------------------------------------------
\* plugins/common/utils.go: the download configuration
\* ------------------------------------------------------------------------

GetThreadsCount(ctx) == cliutils_GetThreadsCount(GetStringFlagValue(ctx, "threads"))

GetDocumentationMessage ==
    "You can read the documentation at " \o JFrogHelpUrl \o "jfrog-cli"

\* minSplitParsed without the documentation message.
minSplitParsedNoLink(p) ==
    IF p.err # nil
    THEN [minSplitSize |-> 0,
          err |-> errors_New("The '--min-split' option should have a numeric value. ")]
    ELSE [minSplitSize |-> p.val, err |-> nil]

\* getMinSplit after ParseInt returned p.
minSplitParsed(p) ==
    IF p.err # nil
    THEN [minSplitSize |-> 0,
          err |-> errors_New("The '--min-split' option should have a numeric value. "
                             \o GetDocumentationMessage)]
    ELSE [minSplitSize |-> p.val, err |-> nil]

\* getMinSplit: [minSplitSize, err].
getMinSplit(ctx, defaultMinSplit) ==
    IF GetStringFlagValue(ctx, minSplit) # ""
    THEN minSplitParsed(ParseInt(GetStringFlagValue(ctx, minSplit), 10, 64))
    ELSE [minSplitSize |-> defaultMinSplit, err |-> nil]

\* The three checks of getSplitCount, one after the other, each on the
\* result r so far: none returns, so a later check that fails replaces the
\* error of an earlier one.
\* checkNumeric without the documentation message.
checkNumericNoLink(r) ==
    IF r.err # nil
    THEN [r EXCEPT !.err = errors_New("The '--split-count' option should have a numeric value. ")]
    ELSE r

checkNumeric(r) ==
    IF r.err # nil
    THEN [r EXCEPT !.err = errors_New("The '--split-count' option should have a numeric value. "
                                      \o GetDocumentationMessage)]
    ELSE r

\* checkMaximum with the comparison off by one: the maximum itself fails.
checkMaximumInclusive(r, maxSplitCount) ==
    IF r.splitCount >= maxSplitCount
    THEN [r EXCEPT !.err = errors_New("The '--split-count' option value is limited to a maximum of "
                                      \o Itoa(maxSplitCount) \o ".")]
    ELSE r

checkMaximum(r, maxSplitCount) ==
    IF r.splitCount > maxSplitCount
    THEN [r EXCEPT !.err = errors_New("The '--split-count' option value is limited to a maximum of "
                                      \o Itoa(maxSplitCount) \o ".")]
    ELSE r

checkNegative(r) ==
    IF r.splitCount < 0
    THEN [r EXCEPT !.err = errors_New("the '--split-count' option cannot have a negative value")]
    ELSE r

\* splitCount, err = strconv.Atoi(...)
splitCountParsed(a) == [splitCount |-> a.val, err |-> a.err]

\* getSplitCount: [splitCount, err].
getSplitCount(ctx, defaultSplitCount, maxSplitCount) ==
    IF GetStringFlagValue(ctx, "split-count") # ""
    THEN checkNegative(
             checkMaximum(
                 checkNumeric(
                     splitCountParsed(Atoi(GetStringFlagValue(ctx, "split-count")))),
                 maxSplitCount))
    ELSE [splitCount |-> defaultSplitCount, err |-> nil]

\* new(artifactoryUtils.DownloadConfiguration)
NewDownloadConfiguration ==
    [MinSplitSize |-> 0, SplitCount |-> 0, Threads |-> 0,
     SkipChecksum |-> FALSE, Symlink |-> FALSE]

\* CreateDownloadConfiguration from its third step: th is what
\* GetThreadsCount returned, cfg the configuration so far.
withThreads(ctx, cfg, th) ==
    IF th.err # nil
    THEN [downloadConfiguration |-> nil, err |-> th.err,
          calls |-> <<"getMinSplit", "getSplitCount", "GetThreadsCount">>]
    ELSE [downloadConfiguration |->
              <<[cfg EXCEPT !.Threads = th.threads,
                            !.SkipChecksum = GetBoolFlagValue(ctx, "skip-checksum"),
                            !.Symlink = TRUE]>>,
          err |-> nil,
          calls |-> <<"getMinSplit", "getSplitCount", "GetThreadsCount">>]

\* CreateDownloadConfiguration from its second step: sc is what
\* getSplitCount returned.
withSplitCount(ctx, cfg, sc) ==
    IF sc.err # nil
    THEN [downloadConfiguration |-> nil, err |-> sc.err,
          calls |-> <<"getMinSplit", "getSplitCount">>]
    ELSE withThreads(ctx, [cfg EXCEPT !.SplitCount = sc.splitCount], GetThreadsCount(ctx))

\* withMinSplit without the return on its error: the later steps run and
\* the error of getMinSplit is lost.
withMinSplitNoReturn(ctx, cfg, ms) ==
    withSplitCount(ctx, [cfg EXCEPT !.MinSplitSize = ms.minSplitSize],
                   getSplitCount(ctx, DownloadSplitCount, DownloadMaxSplitCount))

\* CreateDownloadConfiguration from its first step: ms is what getMinSplit
\* returned.
withMinSplit(ctx, cfg, ms) ==
    IF ms.err # nil
    THEN [downloadConfiguration |-> nil, err |-> ms.err, calls |-> <<"getMinSplit">>]
    ELSE withSplitCount(ctx, [cfg EXCEPT !.MinSplitSize = ms.minSplitSize],
                        getSplitCount(ctx, DownloadSplitCount, DownloadMaxSplitCount))

\* CreateDownloadConfiguration: [downloadConfiguration, err, calls], calls
\* the helpers it called, in the order of the calls.
CreateDownloadConfiguration(ctx) ==
    withMinSplit(ctx, NewDownloadConfiguration, getMinSplit(ctx, DownloadMinSplitKb))

\* ------------------------------------------------------------------------
\* plugins/common/utils.go: flags, overrides, quiet and project
\* ------------------------------------------------------------------------

\* GetStringsArrFlagValue with the empty segments dropped.
GetStringsArrFlagValueNoEmpty(ctx, flagName) ==
    IF IsFlagSet(ctx, flagName)
    THEN SelectSeq(strings_Split(GetStringFlagValue(ctx, flagName), ";"),
                   LAMBDA seg : seg # "")
    ELSE nil

\* GetStringsArrFlagValue: the nil slice with what Split returns appended to
\* it, when the flag is set.
GetStringsArrFlagValue(ctx, flagName) ==
    IF IsFlagSet(ctx, flagName)
    THEN nil \o strings_Split(GetStringFlagValue(ctx, flagName), ";")
    ELSE nil

\* OverrideArrayIfSet: the value of *field after the call.
OverrideArrayIfSet(target, ctx, fieldName) ==
    IF IsFlagSet(ctx, fieldName)
    THEN <<>> \o strings_Split(GetStringFlagValue(ctx, fieldName), ";")
    ELSE target

\* int(value): an int64 as an int.  Every int64 the integers of TLC hold is
\* a value of the int of IntSize bits.
ToInt(value) == value

\* overrideIntParsed that takes only a range error for an error, and stores
\* the 0 that ParseInt returns beside a syntax error.
overrideIntParsedAlways(target, p) == IF p.err = ErrRange THEN target ELSE ToInt(p.val)

\* OverrideIntIfSet after ParseInt returned p.
overrideIntParsed(target, p) == IF p.err # nil THEN target ELSE ToInt(p.val)

\* OverrideIntIfSet: the value of *field after the call.
OverrideIntIfSet(target, ctx, fieldName) ==
    IF IsFlagSet(ctx, fieldName)
    THEN overrideIntParsed(target, ParseInt(GetStringFlagValue(ctx, fieldName), 0, 64))
    ELSE target

\* OverrideStringIfSet: the value of *field after the call.
OverrideStringIfSet(target, ctx, fieldName) ==
    IF IsFlagSet(ctx, fieldName) THEN GetStringFlagValue(ctx, fieldName) ELSE target

\* getCiValue after GetBoolEnvValue returned b.
ciParsed(b) == IF b.err # nil THEN FALSE ELSE b.val

\* getCiValue
getCiValue(e) == ciParsed(GetBoolEnvValue(e, CI, FALSE))

\* GetQuietValue that asks the environment first.
GetQuietValueCiFirst(ctx, e) ==
    IF getCiValue(e) THEN TRUE ELSE GetBoolFlagValue(ctx, "quiet")

\* GetQuietValue
GetQuietValue(ctx, e) ==
    IF IsFlagSet(ctx, "quiet") THEN GetBoolFlagValue(ctx, "quiet") ELSE getCiValue(e)

\* getOrDefaultEnv that prefers the environment variable.
getOrDefaultEnvFirst(e, arg, envKey) ==
    IF os_Getenv(e, envKey) # "" THEN os_Getenv(e, envKey) ELSE arg

\* getOrDefaultEnv
getOrDefaultEnv(e, arg, envKey) == IF arg # "" THEN arg ELSE os_Getenv(e, envKey)

\* GetProject
GetProject(ctx, e) == getOrDefaultEnv(e, GetStringFlagValue(ctx, "project"), Project)

\* ------------------------------------------------------------------------
\* plugins/common/utils.go: the flags of a command
\* ------------------------------------------------------------------------

\* The characters of flag names, in the order of their bytes.
ByteOrder == "-0123456789ABCDEFGHIJKLMNOPQRSTUVWXYZ_abcdefghijklmnopqrstuvwxyz"

\* a < b, for Go strings: the order of the bytes.
StringLess(a, b) ==
    \E i \in 1..(Len(b)) :
        /\ \A j \in 1..(i - 1) : j <= Len(a) /\ CharAt(a, j) = CharAt(b, j)
        /\ \/ i = Len(a) + 1
           \/ /\ i <= Len(a)
              /\ IndexByte(ByteOrder, CharAt(a, i)) < IndexByte(ByteOrder, CharAt(b, i))

\* flags[i].GetName() < flags[j].GetName()
NameLess(flags, i, j) == StringLess(flags[i][1].Name, flags[j][1].Name)

\* What sort.Slice may leave of flags: a rearrangement in which no element
\* is less than the one before it.  The sort is not stable: elements of
\* equal names may end in any order.
SortSlice(flags) ==
    {[i \in 1..Len(flags) |-> flags[perm[i]]] : perm \in
        {q \in Permutations(1..Len(flags)) :
            \A i \in 1..(Len(flags) - 1) : ~NameLess(flags, q[i + 1], q[i])}}

\* append(flags, flagsMap[flag]) for each key: a key the map does not hold
\* gives the zero value, a nil Flag.
collectFlags(keys, flagsMap) ==
    [i \in 1..Len(keys) |->
        IF keys[i] \in DOMAIN flagsMap THEN <<flagsMap[keys[i]]>> ELSE nil]

\* sortFlags that returns the flags as they were registered.
sortFlagsNot(flags) == {[flags |-> flags, panic |-> FALSE]}

\* The sort of buildAndSortFlags: the results it may have.  Sorting two or
\* more elements compares each with a neighbour, and GetName() on a nil Flag
\* panics.
sortFlags(flags) ==
    IF Len(flags) >= 2 /\ \E i \in 1..Len(flags) : flags[i] = nil
    THEN {[flags |-> nil, panic |-> TRUE]}
    ELSE IF Len(flags) < 2 THEN {[flags |-> flags, panic |-> FALSE]}
    ELSE {[flags |-> s, panic |-> FALSE] : s \in SortSlice(flags)}

\* buildAndSortFlags: the results it may have.
buildAndSortFlags(keys, flagsMap) == sortFlags(collectFlags(keys, flagsMap))

\* GetCommandFlags: the results it may have.
GetCommandFlags(cmdKey, commandToFlags, flagsMap) ==
    IF cmdKey \notin DOMAIN commandToFlags
    THEN {[flags |-> nil, panic |-> FALSE]}
    ELSE buildAndSortFlags(commandToFlags[cmdKey], flagsMap)

\* ------------------------------------------------------------------------
\* plugins/common/utils.go: the positional arguments
\* ------------------------------------------------------------------------

\* A slice is [array, len, cap]: its elements are the first len elements of
\* the array heap[array], which has cap elements; array 0 is no array (a nil
\* or empty slice).

NilSlice == [array |-> 0, len |-> 0, cap |-> 0]

\* The elements of slice s in heap h.
Elements(h, s) == IF s.len = 0 THEN <<>> ELSE SubSeq(h[s.array], 1, s.len)

\* slices.Clone(s): [heap, slice], a slice over a new array that holds the
\* elements of s and `spare` more (the capacity append chooses); a slice
\* without elements has no array.
Clone(h, s, spare) ==
    IF s.len = 0 THEN [heap |-> h, slice |-> NilSlice]
    ELSE [heap |-> Append(h, Elements(h, s) \o [i \in 1..spare |-> ""]),
          slice |-> [array |-> Len(h) + 1, len |-> s.len, cap |-> s.len + spare]]

\* ExtractArguments that returns the slice of the context itself.
ExtractArgumentsShared(h, ctx, spare) == [heap |-> h, slice |-> ctx.Arguments]

\* ExtractArguments: [heap, slice].
ExtractArguments(h, ctx, spare) == Clone(h, ctx.Arguments, spare)

\* s[i] = v, i from 0.
SetIndex(h, s, i, v) == [h EXCEPT ![s.array][i + 1] = v]

\* append(s, v): [heap, slice].  With room in the array the element is
\* written into it; without, the elements move to a new array of twice the
\* capacity.
AppendSlice(h, s, v) ==
    IF s.len < s.cap
    THEN [heap |-> [h EXCEPT ![s.array][s.len + 1] = v],
          slice |-> [s EXCEPT !.len = s.len + 1]]
    ELSE LET newcap == IF s.cap = 0 THEN 1 ELSE 2 * s.cap
         IN  [heap |-> Append(h, Elements(h, s) \o <<v>>
                                     \o [i \in 1..(newcap - s.len - 1) |-> ""]),
              slice |-> [array |-> Len(h) + 1, len |-> s.len + 1, cap |-> newcap]]

\* ------------------------------------------------------------------------
\* State
\* ------------------------------------------------------------------------

\* A flag on the command line: not given, or given with a value.
Supplied(values) ==
    {[set |-> TRUE, value |-> v] : v \in values} \cup {[set |-> FALSE]}

\* The flag map of a command line: given is a set of <<name, flag>> pairs,
\* one per name; the map holds the names that were given a value.
FlagMap(given) ==
    [n \in {g[1] : g \in {h \in given : h[2].set}} |->
        (CHOOSE g \in given : g[1] = n)[2].value]

NoCall == [op |-> "none"]
NoFields == [arr |-> <<>>, int |-> 0, str |-> ""]

\* ------------------------------------------------------------------------
\* The download configuration: contexts and the call
\* ------------------------------------------------------------------------

\* The numbers around the limits of split-count, as a user writes them.
SplitCountNumerals == {Itoa(n) : n \in (-1)..(DownloadMaxSplitCount + 2)}

SplitCountValues ==
    Strs({"0", "7", "-", "+", "a"}, MaxFlagLen) \cup SplitCountNumerals
        \cup {"2147483647", "2147483648", "-2147483649", "99999999999a"}

MinSplitValues ==
    Strs({"1", "-", "a"}, MaxFlagLen)
        \cup {"abc", "5120", "9223372036854775808", "-9223372036854775809"}

ThreadsValues == {"", "8", "0", "x"}

DownloadContexts ==
    {[stringFlags |-> FlagMap({<<minSplit, ms>>, <<"split-count", sc>>, <<"threads", th>>}),
      boolFlags |-> FlagMap({<<"skip-checksum", sk>>}),
      Arguments |-> NilSlice] :
        ms \in Supplied(MinSplitValues), sc \in Supplied(SplitCountValues),
        th \in Supplied(ThreadsValues), sk \in Supplied(BOOLEAN)}

InitDownload ==
    /\ c \in DownloadContexts
    /\ env = <<>>
    /\ field = NoFields
    /\ heap = <<>>
    /\ ret = NoCall

\* A command calls CreateDownloadConfiguration(c).
CallCreateDownloadConfiguration ==
    /\ ret' = [op |-> "CreateDownloadConfiguration", out |-> CreateDownloadConfiguration(c)]
    /\ UNCHANGED <<c, env, field, heap>>

NextDownload == CallCreateDownloadConfiguration

SpecDownload == InitDownload /\ [][NextDownload]_vars


\* ------------------------------------------------------------------------
\* Decimal notation, stated apart from strconv
\* ------------------------------------------------------------------------

DigitChars == {CharAt(DecimalDigits, i) : i \in 1..Len(DecimalDigits)}

Unsigned(s) == IF s # "" /\ CharAt(s, 1) \in {"+", "-"} THEN From(s, 1) ELSE s

\* s is an optional sign and one or more decimal digits.
IsDecimal(s) ==
    /\ Unsigned(s) # ""
    /\ \A i \in 1..Len(Unsigned(s)) : CharAt(Unsigned(s), i) \in DigitChars

RECURSIVE StripZeros(_)
StripZeros(s) ==
    IF Len(s) > 1 /\ CharAt(s, 1) = "0" THEN StripZeros(From(s, 1)) ELSE s

\* The magnitude of a decimal s, without leading zeros.
Magnitude(s) == StripZeros(Unsigned(s))

\* The shortest way to write the decimal s: no plus sign, no leading zeros,
\* no minus zero.
Canonical(s) ==
    IF CharAt(s, 1) = "-" /\ Magnitude(s) # "0"
    THEN "-" \o Magnitude(s)
    ELSE Magnitude(s)

\* a <= b, for magnitudes without leading zeros.
MagnitudeLE(a, b) ==
    \/ Len(a) < Len(b)
    \/ /\ Len(a) = Len(b)
       /\ \/ a = b
          \/ LET i == CHOOSE k \in 1..Len(a) :
                          /\ CharAt(a, k) # CharAt(b, k)
                          /\ \A j \in 1..(k - 1) : CharAt(a, j) = CharAt(b, j)
             IN  IndexByte(DecimalDigits, CharAt(a, i)) < IndexByte(DecimalDigits, CharAt(b, i))

\* The decimal s is a value of a signed 64-bit integer.
FitsInt64(s) ==
    IF CharAt(s, 1) = "-"
    THEN MagnitudeLE(Magnitude(s), "9223372036854775808")
    ELSE MagnitudeLE(Magnitude(s), "9223372036854775807")

\* ------------------------------------------------------------------------
\* Claims about CreateDownloadConfiguration
\* ------------------------------------------------------------------------

Built == ret.op = "CreateDownloadConfiguration"
MinSplitFlag == GetStringFlagValue(c, minSplit)
SplitCountFlag == GetStringFlagValue(c, "split-count")

Succeeded == ret.out.err = nil /\ ret.out.downloadConfiguration # nil
Failed == ret.out.err # nil /\ ret.out.downloadConfiguration = nil
Configuration == ret.out.downloadConfiguration[1]

\* The min-split flag is not given, or is a number getMinSplit can hold.
MinSplitValid == MinSplitFlag = "" \/ (IsDecimal(MinSplitFlag) /\ FitsInt64(MinSplitFlag))

\* The split-count flag writes the number n.
SplitCountIs(n) == IsDecimal(SplitCountFlag) /\ Canonical(SplitCountFlag) = Itoa(n)

SplitCountValid ==
    SplitCountFlag = "" \/ \E n \in 0..DownloadMaxSplitCount : SplitCountIs(n)

ThreadsValid == GetThreadsCount(c).err = nil

\* C1: with a min-split flag that is unset or numeric and a threads flag that
\* parses, CreateDownloadConfiguration succeeds with SplitCount n when the
\* split-count flag writes a number n of 0..15, succeeds with SplitCount 3
\* when the flag is empty, and fails (no configuration, no clamped value) for
\* every other non-empty value: above 15, negative, or no integer.
C1_SplitCountRange ==
    (Built /\ MinSplitValid /\ ThreadsValid) =>
        /\ \A n \in 0..15 : SplitCountIs(n) => (Succeeded /\ Configuration.SplitCount = n)
        /\ SplitCountFlag = "" => (Succeeded /\ Configuration.SplitCount = 3)
        /\ (SplitCountFlag # "" /\ ~\E n \in 0..15 : SplitCountIs(n)) => Failed

\* C1's case: split-count 15, the maximum, is accepted as it is.
C1_Witness ==
    /\ Built /\ MinSplitValid /\ ThreadsValid
    /\ SplitCountFlag = "15"
    /\ Succeeded /\ Configuration.SplitCount = 15

\* C2 as the spec states it: a min-split that is no base-10 integer fails with
\* a message that holds the documentation URL; an empty min-split gives
\* MinSplitSize 5120; a min-split that is a base-10 integer gives exactly that
\* integer as MinSplitSize.
C2_MinSplitAnyInteger ==
    Built =>
        /\ (MinSplitFlag # "" /\ ~IsDecimal(MinSplitFlag)) =>
               (Failed /\ Contains(ret.out.err[1], JFrogHelpUrl))
        /\ (MinSplitFlag = "" /\ SplitCountValid /\ ThreadsValid) =>
               (Succeeded /\ Configuration.MinSplitSize = 5120)
        /\ (IsDecimal(MinSplitFlag) /\ SplitCountValid /\ ThreadsValid) =>
               (Succeeded /\ Itoa(Configuration.MinSplitSize) = Canonical(MinSplitFlag))

\* C2, amended: the same, but MinSplitSize is the integer the flag writes only
\* when that integer fits a signed 64-bit integer; a base-10 integer beyond
\* that range fails like a non-numeric value, with the documentation URL in
\* the message.
C2_MinSplit ==
    Built =>
        /\ (MinSplitFlag # "" /\ ~(IsDecimal(MinSplitFlag) /\ FitsInt64(MinSplitFlag))) =>
               (Failed /\ Contains(ret.out.err[1], JFrogHelpUrl))
        /\ (MinSplitFlag = "" /\ SplitCountValid /\ ThreadsValid) =>
               (Succeeded /\ Configuration.MinSplitSize = 5120)
        /\ (IsDecimal(MinSplitFlag) /\ FitsInt64(MinSplitFlag)
                /\ SplitCountValid /\ ThreadsValid) =>
               (Succeeded /\ Itoa(Configuration.MinSplitSize) = Canonical(MinSplitFlag))

\* C2's case: a min-split of 2^63 is a base-10 integer and fails.
C2_Witness ==
    /\ Built
    /\ MinSplitFlag = "9223372036854775808"
    /\ Failed /\ Contains(ret.out.err[1], JFrogHelpUrl)

\* The step that failed.
FailedIn(step) == Failed /\ ret.out.calls[Len(ret.out.calls)] = step

HasDocumentationSuffix == HasSuffix(ret.out.err[1], GetDocumentationMessage)

\* C3 as the spec states it: every validation failure (min-split not numeric,
\* split-count not numeric, split-count above 15, split-count negative)
\* carries a message that ends with the documentation message.
C3_EveryFailureLinksDocumentation ==
    (Built /\ (FailedIn("getMinSplit") \/ FailedIn("getSplitCount"))) =>
        HasDocumentationSuffix

\* Atoi(s) reports a range error where it would otherwise report a syntax
\* error: the digits before the first character that is no digit already
\* pass 2^IntSize - 1.
RECURSIVE LeadingDigits(_)
LeadingDigits(s) ==
    IF s = "" \/ CharAt(s, 1) \notin DigitChars THEN ""
    ELSE CharAt(s, 1) \o LeadingDigits(From(s, 1))

OverflowsBeforeSyntax(s) ==
    /\ LeadingDigits(Unsigned(s)) # ""
    /\ ~MagnitudeLE(StripZeros(LeadingDigits(Unsigned(s))), "4294967295")

\* C3, amended: the failure of min-split always ends with the documentation
\* message; the failure of split-count ends with it when the value is no
\* decimal integer (and its leading digits do not already overflow an int),
\* and does not when the value is a decimal integer, which then is above 15
\* or negative: those two messages carry no documentation message.
C3_FailureMessages ==
    Built =>
        /\ FailedIn("getMinSplit") => HasDocumentationSuffix
        /\ (FailedIn("getSplitCount") /\ ~IsDecimal(SplitCountFlag)
                /\ ~OverflowsBeforeSyntax(SplitCountFlag)) =>
               HasDocumentationSuffix
        /\ (FailedIn("getSplitCount") /\ IsDecimal(SplitCountFlag)) =>
               /\ ~HasDocumentationSuffix
               /\ ret.out.err[1] \in
                      {"The '--split-count' option value is limited to a maximum of 15.",
                       "the '--split-count' option cannot have a negative value"}

\* C3's case: split-count 16 fails with the message of the maximum, which
\* has no documentation message.
C3_Witness ==
    /\ Built /\ FailedIn("getSplitCount")
    /\ SplitCountFlag = "16"
    /\ ret.out.err[1] = "The '--split-count' option value is limited to a maximum of 15."

\* C4: the steps run in the order min-split, split-count, threads; the error
\* returned is that of the first step that fails and no later step runs; the
\* configuration is nil exactly when the error is not; a configuration that
\* is returned has Symlink = TRUE, SkipChecksum = the skip-checksum flag and
\* 0 <= SplitCount <= 15.
C4_FirstErrorWins ==
    Built =>
        LET e1 == getMinSplit(c, DownloadMinSplitKb).err
            e2 == getSplitCount(c, DownloadSplitCount, DownloadMaxSplitCount).err
            e3 == GetThreadsCount(c).err
            steps == <<"getMinSplit", "getSplitCount", "GetThreadsCount">>
        IN  /\ e1 # nil => (ret.out.err = e1 /\ ret.out.calls = SubSeq(steps, 1, 1))
            /\ (e1 = nil /\ e2 # nil) =>
                   (ret.out.err = e2 /\ ret.out.calls = SubSeq(steps, 1, 2))
            /\ (e1 = nil /\ e2 = nil) => (ret.out.err = e3 /\ ret.out.calls = steps)
            /\ ret.out.downloadConfiguration = nil <=> ret.out.err # nil
            /\ ret.out.downloadConfiguration # nil =>
                   /\ Configuration.Symlink = TRUE
                   /\ Configuration.SkipChecksum = GetBoolFlagValue(c, "skip-checksum")
                   /\ 0 <= Configuration.SplitCount
                   /\ Configuration.SplitCount <= 15

\* C4's case: min-split and split-count are both bad, and the error is the
\* one of min-split, the first step; split-count was not looked at.
C4_Witness ==
    /\ Built
    /\ MinSplitFlag = "abc" /\ SplitCountFlag = "16"
    /\ FailedIn("getMinSplit")
    /\ ret.out.calls = <<"getMinSplit">>


\* ------------------------------------------------------------------------
\* Quiet and project: contexts, environments and the calls
\* ------------------------------------------------------------------------

CiValues ==
    Strs({"1", "t", "x"}, MaxFlagLen)
        \cup {"true", "false", "TRUE", "True", "0", "F", "yes", "tru"}

ProjectValues == Strs({"p", "1"}, MaxFlagLen)

EnvContexts ==
    {[stringFlags |-> FlagMap({<<"project", pr>>}),
      boolFlags |-> FlagMap({<<"quiet", q>>}),
      Arguments |-> NilSlice] :
        pr \in Supplied(ProjectValues), q \in Supplied(BOOLEAN)}

Environments ==
    {FlagMap({<<CI, ci>>, <<Project, pr>>}) :
        ci \in Supplied(CiValues), pr \in Supplied(ProjectValues)}

InitEnv ==
    /\ c \in EnvContexts
    /\ env \in Environments
    /\ field = NoFields
    /\ heap = <<>>
    /\ ret = NoCall

CallGetQuietValue ==
    /\ ret' = [op |-> "GetQuietValue", out |-> GetQuietValue(c, env)]
    /\ UNCHANGED <<c, env, field, heap>>

CallGetProject ==
    /\ ret' = [op |-> "GetProject", out |-> GetProject(c, env)]
    /\ UNCHANGED <<c, env, field, heap>>

NextEnv == CallGetQuietValue \/ CallGetProject

SpecEnv == InitEnv /\ [][NextEnv]_vars

\* The words strconv.ParseBool reads as true.
TrueWords == {"1", "t", "T", "TRUE", "true", "True"}

\* C5: GetQuietValue returns the boolean value of the quiet flag whenever the
\* flag is set, whatever CI holds; with the flag not set it returns TRUE
\* exactly when CI holds a word that reads as boolean true, and FALSE when CI
\* is unset or no boolean.
C5_QuietValue ==
    ret.op = "GetQuietValue" =>
        /\ "quiet" \in DOMAIN c.boolFlags => ret.out = c.boolFlags["quiet"]
        /\ "quiet" \notin DOMAIN c.boolFlags =>
               ret.out = (CI \in DOMAIN env /\ env[CI] \in TrueWords)

\* C5's case: quiet is given as false and CI is "true"; the flag wins.
C5_Witness ==
    /\ ret.op = "GetQuietValue"
    /\ "quiet" \in DOMAIN c.boolFlags /\ c.boolFlags["quiet"] = FALSE
    /\ CI \in DOMAIN env /\ env[CI] = "true"
    /\ ret.out = FALSE

\* C10: GetProject returns the value of the project flag whenever it is not
\* empty, whatever the environment holds; with an empty flag value it returns
\* the value of the project environment variable, and "" when that one is
\* not set either.
C10_Project ==
    ret.op = "GetProject" =>
        LET flag == IF "project" \in DOMAIN c.stringFlags
                    THEN c.stringFlags["project"] ELSE ""
        IN  /\ flag # "" => ret.out = flag
            /\ (flag = "" /\ Project \in DOMAIN env) => ret.out = env[Project]
            /\ (flag = "" /\ Project \notin DOMAIN env) => ret.out = ""

\* C10's case: the flag is not given and the environment names a project.
C10_Witness ==
    /\ ret.op = "GetProject"
    /\ "project" \notin DOMAIN c.stringFlags
    /\ Project \in DOMAIN env /\ env[Project] = "p1"
    /\ ret.out = "p1"

\* ------------------------------------------------------------------------
\* Overrides and array flags: contexts, targets and the calls
\* ------------------------------------------------------------------------

OverrideValues ==
    Strs({"1", "0", "x", ";", "-"}, MaxFlagLen)
        \cup {"a;b;c", ";a;;", "0x1F", "1_0", "07", "9223372036854775808"}

\* The flags the calls name: "f" is a string flag, "b" a boolean one.
FieldNames == {"f", "b"}

OverrideContexts ==
    {[stringFlags |-> FlagMap({<<"f", f>>}),
      boolFlags |-> FlagMap({<<"b", b>>}),
      Arguments |-> NilSlice] :
        f \in Supplied(OverrideValues), b \in Supplied({TRUE})}

\* The caller's defaults.
Defaults == [arr |-> <<"default">>, int |-> 42, str |-> "default"]

InitOverride ==
    /\ c \in OverrideContexts
    /\ env = <<>>
    /\ field = Defaults
    /\ heap = <<>>
    /\ ret = NoCall

CallOverrideArrayIfSet ==
    \E fieldName \in FieldNames :
        /\ field' = [field EXCEPT !.arr = OverrideArrayIfSet(field.arr, c, fieldName)]
        /\ ret' = [op |-> "OverrideArrayIfSet", fieldName |-> fieldName]
        /\ UNCHANGED <<c, env, heap>>

CallOverrideIntIfSet ==
    \E fieldName \in FieldNames :
        /\ field' = [field EXCEPT !.int = OverrideIntIfSet(field.int, c, fieldName)]
        /\ ret' = [op |-> "OverrideIntIfSet", fieldName |-> fieldName]
        /\ UNCHANGED <<c, env, heap>>

CallOverrideStringIfSet ==
    \E fieldName \in FieldNames :
        /\ field' = [field EXCEPT !.str = OverrideStringIfSet(field.str, c, fieldName)]
        /\ ret' = [op |-> "OverrideStringIfSet", fieldName |-> fieldName]
        /\ UNCHANGED <<c, env, heap>>

CallGetStringsArrFlagValue ==
    \E flagName \in FieldNames :
        /\ ret' = [op |-> "GetStringsArrFlagValue", fieldName |-> flagName,
                   out |-> GetStringsArrFlagValue(c, flagName)]
        /\ UNCHANGED <<c, env, field, heap>>

NextOverride ==
    \/ CallOverrideArrayIfSet
    \/ CallOverrideIntIfSet
    \/ CallOverrideStringIfSet
    \/ CallGetStringsArrFlagValue

SpecOverride == InitOverride /\ [][NextOverride]_vars

\* The flag of the last call is given on the command line.
Given(name) == name \in DOMAIN c.stringFlags \/ name \in DOMAIN c.boolFlags

ValueOf(name) == IF name \in DOMAIN c.stringFlags THEN c.stringFlags[name] ELSE ""

\* C7: a call of OverrideArrayIfSet, OverrideIntIfSet or OverrideStringIfSet
\* leaves the target as it was when the flag it names is not set, and
\* OverrideIntIfSet also when the flag is set but its value parses as no
\* integer; no call touches a target other than its own.
C7_OverrideOnlyIfSet ==
    [][/\ (ret'.op = "OverrideArrayIfSet" /\ ~Given(ret'.fieldName)) => field' = field
       /\ (ret'.op = "OverrideStringIfSet" /\ ~Given(ret'.fieldName)) => field' = field
       /\ (/\ ret'.op = "OverrideIntIfSet"
           /\ \/ ~Given(ret'.fieldName)
              \/ ParseInt(ValueOf(ret'.fieldName), 0, 64).err # nil) => field' = field
       /\ ret'.op = "OverrideArrayIfSet" => (field'.int = field.int /\ field'.str = field.str)
       /\ ret'.op = "OverrideIntIfSet" => (field'.arr = field.arr /\ field'.str = field.str)
       /\ ret'.op = "OverrideStringIfSet" => (field'.arr = field.arr /\ field'.int = field.int)
      ]_vars

\* C7's case: OverrideIntIfSet was called for a flag that is set to "1x", no
\* integer, and the target still holds the caller's default.
C7_Witness ==
    /\ ret.op = "OverrideIntIfSet" /\ ret.fieldName = "f"
    /\ Given("f") /\ ValueOf("f") = "1x"
    /\ field.int = Defaults.int

\* The number of characters of s that are ch.
Count(s, ch) == Cardinality({i \in 1..Len(s) : CharAt(s, i) = ch})

\* C8: GetStringsArrFlagValue returns the empty sequence when the flag is not
\* set; when it is set it returns the segments of the value between the ';',
\* in order, empty ones included: joined with ';' they give the value back,
\* none holds a ';', and there is one more of them than there are ';'.
C8_StringsArr ==
    ret.op = "GetStringsArrFlagValue" =>
        /\ ~Given(ret.fieldName) => ret.out = <<>>
        /\ Given(ret.fieldName) =>
               /\ strings_Join(ret.out, ";") = ValueOf(ret.fieldName)
               /\ \A i \in 1..Len(ret.out) : Count(ret.out[i], ";") = 0
               /\ Len(ret.out) = Count(ValueOf(ret.fieldName), ";") + 1

\* C8's case: ";a;;" has four segments, three of them empty.
C8_Witness ==
    /\ ret.op = "GetStringsArrFlagValue" /\ ret.fieldName = "f"
    /\ Given("f") /\ ValueOf("f") = ";a;;"
    /\ ret.out = <<"", "a", "", "">>


\* ------------------------------------------------------------------------
\* The flags of a command: the maps and the call
\* ------------------------------------------------------------------------

\* Longest list of flag names registered for a command.
MaxFlags == 3

FlagKeys == {"threads", "quiet", "url"}

\* Flag descriptors: GetName() gives Name.  Two of them share a name.
Descriptors ==
    {[Name |-> "quiet", Description |-> "x"], [Name |-> "quiet", Description |-> "y"],
     [Name |-> "threads", Description |-> "x"]}

\* A registry that names each flag as its key, the registries that give
\* "quiet" and "url" any descriptor, and one that does not hold "url".
FlagsMaps ==
    {[k \in FlagKeys |-> [Name |-> k, Description |-> "x"]]}
        \cup {[k \in FlagKeys |->
                  IF k = "quiet" THEN q
                  ELSE IF k = "url" THEN u
                  ELSE [Name |-> k, Description |-> "x"]] :
                 q \in Descriptors, u \in Descriptors}
        \cup {[k \in FlagKeys \ {"url"} |-> [Name |-> k, Description |-> "x"]]}

FlagLists == UNION {[1..n -> FlagKeys] : n \in 0..MaxFlags}

CommandMaps ==
    {<<>>, [k \in {"scan"} |-> <<"url">>]}
        \cup {[k \in {"build"} |-> list] : list \in FlagLists}

InitCommandFlags ==
    /\ c = [stringFlags |-> <<>>, boolFlags |-> <<>>, Arguments |-> NilSlice]
    /\ env = <<>>
    /\ field = NoFields
    /\ heap = <<>>
    /\ ret = NoCall

CallGetCommandFlags ==
    /\ ret.op = "none"
    /\ \E cmdKey \in {"build", "scan"}, commandToFlags \in CommandMaps,
          flagsMap \in FlagsMaps :
           \E out \in GetCommandFlags(cmdKey, commandToFlags, flagsMap) :
               ret' = [op |-> "GetCommandFlags", cmdKey |-> cmdKey,
                       commandToFlags |-> commandToFlags, flagsMap |-> flagsMap,
                       out |-> out]
    /\ UNCHANGED <<c, env, field, heap>>

NextCommandFlags == CallGetCommandFlags

SpecCommandFlags == InitCommandFlags /\ [][NextCommandFlags]_vars

Registered == ret.commandToFlags[ret.cmdKey]

\* C6: for a command key of commandToFlags whose registered names flagsMap
\* all maps, GetCommandFlags returns one descriptor per registered name, the
\* one flagsMap maps the name to, in ascending order of the descriptors'
\* names, whatever the order of registration; for a command key that
\* commandToFlags does not hold it returns nil and raises nothing.
C6_CommandFlags ==
    ret.op = "GetCommandFlags" =>
        /\ ret.cmdKey \notin DOMAIN ret.commandToFlags =>
               (ret.out.flags = nil /\ ~ret.out.panic)
        /\ (/\ ret.cmdKey \in DOMAIN ret.commandToFlags
            /\ \A i \in 1..Len(Registered) : Registered[i] \in DOMAIN ret.flagsMap) =>
               /\ ~ret.out.panic
               /\ Len(ret.out.flags) = Len(Registered)
               /\ \E perm \in Permutations(1..Len(Registered)) :
                      \A i \in 1..Len(Registered) :
                          ret.out.flags[perm[i]] = <<ret.flagsMap[Registered[i]]>>
               /\ \A i, j \in 1..Len(ret.out.flags) :
                      i < j => ~StringLess(ret.out.flags[j][1].Name, ret.out.flags[i][1].Name)

\* C6's case: "threads" and "quiet" are registered in this order, and the
\* descriptor of "quiet" comes first.
C6_Witness ==
    /\ ret.op = "GetCommandFlags" /\ ret.cmdKey = "build"
    /\ "build" \in DOMAIN ret.commandToFlags
    /\ Registered = <<"threads", "quiet">>
    /\ ret.flagsMap = [k \in FlagKeys |-> [Name |-> k, Description |-> "x"]]
    /\ ret.out.flags = <<<<[Name |-> "quiet", Description |-> "x"]>>,
                         <<[Name |-> "threads", Description |-> "x"]>>>>

\* ------------------------------------------------------------------------
\* The positional arguments: the context, the copy and what is done to it
\* ------------------------------------------------------------------------

\* Most positional arguments of a context.
MaxArgs == 2

\* Most elements a caller appends to the copy.
MaxAppends == 2

ArgumentLists == UNION {[1..n -> {"a", "b"}] : n \in 0..MaxArgs}

\* The context's slice may have room after its elements.
InitArguments ==
    /\ \E args \in ArgumentLists, spare \in 0..1 :
           IF args = <<>> /\ spare = 0
           THEN /\ heap = <<>>
                /\ c = [stringFlags |-> <<>>, boolFlags |-> <<>>, Arguments |-> NilSlice]
           ELSE /\ heap = <<args \o [i \in 1..spare |-> ""]>>
                /\ c = [stringFlags |-> <<>>, boolFlags |-> <<>>,
                        Arguments |-> [array |-> 1, len |-> Len(args),
                                       cap |-> Len(args) + spare]]
    /\ env = <<>>
    /\ field = NoFields
    /\ ret = NoCall

CallExtractArguments ==
    /\ ret.op = "none"
    /\ \E spare \in 0..1 :
           LET r == ExtractArguments(heap, c, spare)
           IN  /\ heap' = r.heap
               /\ ret' = [op |-> "ExtractArguments", out |-> r.slice, appends |-> 0]
    /\ UNCHANGED <<c, env, field>>

\* The caller writes an element of the slice it was returned.
WriteResult ==
    /\ ret.op = "ExtractArguments"
    /\ \E i \in 0..(ret.out.len - 1), v \in {"a", "z"} :
           heap' = SetIndex(heap, ret.out, i, v)
    /\ UNCHANGED <<c, env, field, ret>>

\* The caller appends to the slice it was returned.
AppendResult ==
    /\ ret.op = "ExtractArguments"
    /\ ret.appends < MaxAppends
    /\ \E v \in {"a", "z"} :
           LET r == AppendSlice(heap, ret.out, v)
           IN  /\ heap' = r.heap
               /\ ret' = [ret EXCEPT !.out = r.slice, !.appends = ret.appends + 1]
    /\ UNCHANGED <<c, env, field>>

NextArguments == CallExtractArguments \/ WriteResult \/ AppendResult

SpecArguments == InitArguments /\ [][NextArguments]_vars

\* C9: ExtractArguments returns a sequence equal, element by element, to the
\* positional arguments of the context, and whatever is then written or
\* appended to that sequence, the context's Arguments stay what they were.
C9_ArgumentsCopied ==
    [][/\ Elements(heap', c'.Arguments) = Elements(heap, c.Arguments)
       /\ (ret.op = "none" /\ ret'.op = "ExtractArguments") =>
              Elements(heap', ret'.out) = Elements(heap, c.Arguments)
      ]_vars

\* C9's case: the copy of two arguments was written and appended to, and the
\* context still holds the two arguments.
C9_Witness ==
    /\ ret.op = "ExtractArguments"
    /\ Elements(heap, c.Arguments) = <<"a", "b">>
    /\ c.Arguments.cap > c.Arguments.len
    /\ Elements(heap, ret.out) = <<"z", "z", "z">>

=============================================================================
